---------------------------- MODULE Spec2Model ----------------------------
(***************************************************************************)
(* Model of gradio/app.py of Open-Sora: the request handlers               *)
(* run_image_inference / run_video_inference and the orchestration         *)
(* function run_inference (planner, reference preparation, generation      *)
(* loop, stitcher, save), together with the process-wide objects they      *)
(* share: the scheduler built at import time, torch's default random       *)
(* generator and the CUDA caching allocator.                               *)
(*                                                                         *)
(* Each worker thread of the hosting service executes one handler call.    *)
(* A thread's steps are the handler's statements grouped so that every     *)
(* access to a shared object is a step of its own.                         *)
(***************************************************************************)
EXTENDS Integers, Sequences, FiniteSets, TLC

(***************************************************************************)
(* Bounds of the model                                                     *)
(***************************************************************************)
\* seeds are drawn from 1..MaxSeed (the UI slider offers 1..2048)
MaxSeed == 2

Threads == {"t1", "t2"}

(***************************************************************************)
(* Strings that the code takes apart are sequences of characters.          *)
(***************************************************************************)
Tag2s  == <<"2", "s">>
Tag4s  == <<"4", "s">>
Tag8s  == <<"8", "s">>
Tag16s == <<"1", "6", "s">>
Tag17s == <<"1", "7", "s">>
Tag32s == <<"3", "2", "s">>

\* the "Video Length" radio of the UI
UILengths == {Tag2s, Tag4s, Tag8s, Tag16s}
\* run_inference also plans for lengths beyond 16 s
Lengths == UILengths \cup {Tag17s, Tag32s}
Resolutions == {"144p", "240p", "360p", "480p", "720p"}
AspectRatios == {"9:16", "1:1"}
Seeds == 1..MaxSeed
SamplingSteps == {30, 50}
\* cfg_scale in tenths (the slider steps by 0.1): 70 is 7.0
CfgScales == {45, 70}
InvalidModes == {"Image2Video"}

DigitVal == [c \in {"0", "1", "2", "3", "4", "5", "6", "7", "8", "9"} |->
               CASE c = "0" -> 0 [] c = "1" -> 1 [] c = "2" -> 2 [] c = "3" -> 3
                 [] c = "4" -> 4 [] c = "5" -> 5 [] c = "6" -> 6 [] c = "7" -> 7
                 [] c = "8" -> 8 [] c = "9" -> 9]

\* str.rstrip(ch)
RECURSIVE rstrip(_, _)
rstrip(s, ch) ==
    IF Len(s) > 0 /\ s[Len(s)] = ch
    THEN rstrip(SubSeq(s, 1, Len(s) - 1), ch)
    ELSE s

\* int(str) accepts a non-empty run of decimal digits (else ValueError)
IsInt(s) == Len(s) > 0 /\ \A i \in 1..Len(s) : s[i] \in DOMAIN DigitVal

RECURSIVE int(_)
int(s) ==
    IF Len(s) = 0 THEN 0
    ELSE 10 * int(SubSeq(s, 1, Len(s) - 1)) + DigitVal[s[Len(s)]]

\* int(a / b) of Python: true division, then truncation toward zero
TruncDiv(a, b) ==
    LET q == (IF a < 0 THEN -a ELSE a) \div (IF b < 0 THEN -b ELSE b)
    IN  IF (a < 0) = (b < 0) THEN q ELSE -q

(***************************************************************************)
(* Collaborators that live outside gradio/app.py: the inference config     *)
(* (configs/opensora-v1-2/inference/sample.py) and opensora.datasets /     *)
(* opensora.utils.  Values follow the specification's worked example       *)
(* (fps = 24, num_frames = 51, condition length converting to 17 frames).  *)
(***************************************************************************)
config_fps == 24
config_num_frames == 51
config_condition_frame_length == 5
IMG_FPS == 120
config_scheduler ==
    [type |-> "rflow", num_sampling_steps |-> 30, cfg_scale |-> 70,
     use_timestep_transform |-> TRUE]

\* compressed ("downsampled") frames to real frames
dframe_to_frame(num) == (num \div 5) * 17

\* the length-tag lookup: each tag is a whole number of 17-frame blocks
NUM_FRAMES_MAP ==
    [tag \in UILengths |->
        CASE tag = Tag2s -> 51 [] tag = Tag4s -> 102
          [] tag = Tag8s -> 204 [] tag = Tag16s -> 408]

HasNumFrames(length) == length \in DOMAIN NUM_FRAMES_MAP \/ IsInt(length)
get_num_frames(length) ==
    IF length \in DOMAIN NUM_FRAMES_MAP THEN NUM_FRAMES_MAP[length] ELSE int(length)

(***************************************************************************)
(* run_video_inference's pre-screen (lines 383-384)                        *)
(***************************************************************************)
\* variant: only the combination the warning text names is screened
Infeasible_Only480p16s(resolution, length) ==
    resolution = "480p" /\ length = Tag16s

Infeasible(resolution, length) ==
    \/ (resolution = "480p" /\ length = Tag16s)
    \/ (resolution = "720p" /\ length \in {Tag8s, Tag16s})

(***************************************************************************)
(* The planner of run_inference (lines 212-228).  A mode other than        *)
(* "Text2Image" takes the else branch, whatever it is.                     *)
(***************************************************************************)
\* variant: the threshold taken strictly
IsSingleLoop_Below16(seconds) == seconds < 16

\* line 221
IsSingleLoop(seconds) == seconds <= 16

\* variant: the operands of the subtraction exchanged
LoopDivisor_Swapped(num_frames, condition_real_frame_length) ==
    condition_real_frame_length - num_frames

\* line 227, the divisor
LoopDivisor(num_frames, condition_real_frame_length) ==
    num_frames - condition_real_frame_length

\* variant: the conditioning overlap left out of the divisor
NumSubsequenceLoop_NoOverlap(total_num_frames, num_frames, condition_real_frame_length) ==
    TruncDiv(total_num_frames - num_frames, num_frames)

\* variant: the quotient rounded up instead of truncated
NumSubsequenceLoop_RoundUp(total_num_frames, num_frames, condition_real_frame_length) ==
    TruncDiv(total_num_frames - num_frames
                + LoopDivisor(num_frames, condition_real_frame_length) - 1,
             LoopDivisor(num_frames, condition_real_frame_length))

\* line 227
NumSubsequenceLoop(total_num_frames, num_frames, condition_real_frame_length) ==
    TruncDiv(total_num_frames - num_frames,
             LoopDivisor(num_frames, condition_real_frame_length))

\* what the planner raises, or "none"
PlanError(mode, length) ==
    IF mode = "Text2Image" THEN "none"
    ELSE IF ~IsInt(rstrip(length, "s")) THEN "ValueError"
    ELSE IF IsSingleLoop(int(rstrip(length, "s")))
         THEN IF HasNumFrames(length) THEN "none" ELSE "ValueError"
         ELSE IF LoopDivisor(config_num_frames,
                             dframe_to_frame(config_condition_frame_length)) = 0
              THEN "ZeroDivisionError" ELSE "none"

UnsetPlan ==
    [num_frames |-> 0, num_loop |-> 0, fps |-> 0, seconds |-> 0,
     divided |-> FALSE, divisor |-> 0]

Plan(mode, length) ==
    IF mode = "Text2Image"
    THEN [UnsetPlan EXCEPT !.num_frames = 1, !.num_loop = 1, !.fps = IMG_FPS]
    ELSE LET seconds == int(rstrip(length, "s"))
             base == [UnsetPlan EXCEPT !.fps = config_fps, !.seconds = seconds]
         IN  IF IsSingleLoop(seconds)
             THEN [base EXCEPT !.num_frames = get_num_frames(length),
                               !.num_loop = 1]
             ELSE LET total_num_frames == config_fps * seconds
                      condition_real_frame_length ==
                          dframe_to_frame(config_condition_frame_length)
                  IN  [base EXCEPT
                         !.num_frames = config_num_frames,
                         !.num_loop = NumSubsequenceLoop(total_num_frames,
                                          config_num_frames,
                                          condition_real_frame_length) + 1,
                         !.divided = TRUE,
                         !.divisor = LoopDivisor(config_num_frames,
                                                 condition_real_frame_length)]

(***************************************************************************)
(* Requests.  fn is the entry point that is called: the "Generate image"   *)
(* handler, the "Generate video" handler, or run_inference itself (the     *)
(* only way to hand it a mode of the caller's choosing).                   *)
(***************************************************************************)
NoRequest ==
    [fn |-> "none", mode |-> "", resolution |-> "", aspect_ratio |-> "",
     length |-> <<>>, reference_image |-> FALSE, seed |-> 0,
     sampling_steps |-> 0, cfg_scale |-> 0, use_timestep_transform |-> FALSE]

RequestsOf(fns, modes, resolutions, lengths, images, steps, scales, transforms) ==
    [fn : fns, mode : modes, resolution : resolutions,
     aspect_ratio : AspectRatios, length : lengths, reference_image : images,
     seed : Seeds, sampling_steps : steps, cfg_scale : scales,
     use_timestep_transform : transforms]

Requests ==
    RequestsOf({"image", "video"}, {""}, Resolutions, Lengths, BOOLEAN,
               SamplingSteps, CfgScales, BOOLEAN)
    \cup RequestsOf({"direct"}, InvalidModes, Resolutions, Lengths, BOOLEAN,
                    SamplingSteps, CfgScales, BOOLEAN)

\* the requests that are run two at a time
ConcRequests ==
    { r \in Requests :
        /\ r.aspect_ratio = "9:16"
        /\ r.reference_image = FALSE
        /\ \/ r.resolution = "144p" /\ r.length = Tag2s
           \/ r.resolution = "720p" /\ r.length = Tag8s /\ r.fn = "video"
        /\ <<r.sampling_steps, r.cfg_scale, r.use_timestep_transform>>
              \in {<<30, 70, TRUE>>, <<50, 45, FALSE>>} }

\* a request of several loops, and the short requests run beside it
LongRequests ==
    { r \in Requests :
        /\ r.fn = "video" /\ r.resolution = "144p" /\ r.length = Tag17s
        /\ r.aspect_ratio = "9:16" /\ r.reference_image = FALSE
        /\ <<r.sampling_steps, r.cfg_scale, r.use_timestep_transform>> = <<30, 70, TRUE>> }

ShortRequests ==
    { r \in ConcRequests :
        /\ r.fn # "video"
        /\ <<r.sampling_steps, r.cfg_scale, r.use_timestep_transform>> = <<30, 70, TRUE>> }

(***************************************************************************)
(* State                                                                   *)
(***************************************************************************)
VARIABLES
    args,        \* args[t]: the arguments of the call thread t executes
    pc,          \* pc[t]: where thread t is in the handler
    loc,         \* loc[t]: run_inference's local variables and the calls it made
    ret,         \* ret[t]: what reached the caller of the handler
    scheduler,   \* the module-level scheduler object (line 197)
    rng,         \* torch's default generator: its seed and its position
    cuda_cache,  \* the caching allocator: "held" while it keeps freed blocks
    outputs,     \* the files save_sample wrote
    warnings     \* the threads whose call raised a gr.Warning

vars == <<args, pc, loc, ret, scheduler, rng, cuda_cache, outputs, warnings>>

None == <<>>
NoReturn   == [kind |-> "running", exc |-> "", value |-> None]
Returned(v) == [kind |-> "returned", exc |-> "", value |-> v]
Raised(e)  == [kind |-> "raised", exc |-> e, value |-> None]

InitLocals ==
    [mode |-> "", plan |-> UnsetPlan, mask_strategy |-> <<>>, refs |-> <<>>,
     loop_i |-> 0, z |-> [seed |-> 0, offset |-> 0], video_clips |-> <<>>,
     video |-> <<>>, saved_path |-> None, samples |-> <<>>, trace |-> <<>>,
     seedings |-> <<>>]

InitShared ==
    /\ pc = [t \in Threads |-> "idle"]
    /\ loc = [t \in Threads |-> InitLocals]
    /\ ret = [t \in Threads |-> NoReturn]
    /\ scheduler = [k \in DOMAIN config_scheduler \ {"type"} |-> config_scheduler[k]]
    /\ rng = [seed |-> 0, offset |-> 0]
    /\ cuda_cache = "empty"
    /\ outputs = {}
    /\ warnings = {}

\* one call, on one thread
Init ==
    /\ \E r \in Requests : args = [t \in Threads |-> IF t = "t1" THEN r ELSE NoRequest]
    /\ InitShared

\* two calls, one per thread, running at the same time
InitConc ==
    /\ args \in [Threads -> ConcRequests]
    /\ InitShared

\* a call of several loops on t1 while a short call runs on t2
InitConcLong ==
    /\ \E r \in LongRequests, q \in ShortRequests :
          args = [t \in Threads |-> IF t = "t1" THEN r ELSE q]
    /\ InitShared

Event(op, loop) == [op |-> op, loop |-> loop]

Goto(t, label) == pc' = [pc EXCEPT ![t] = label]

\* variant: the exception is caught and the stitch goes on with what exists
Raise_Caught(t, e) ==
    /\ ret' = ret
    /\ Goto(t, "stitch")

\* an exception leaves run_inference and the handler: nothing catches it
Raise(t, e) ==
    /\ ret' = [ret EXCEPT ![t] = Raised(e)]
    /\ Goto(t, "done")

(***************************************************************************)
(* The handlers                                                            *)
(***************************************************************************)
Enter(t, mode) ==
    /\ loc' = [loc EXCEPT ![t].mode = mode]
    /\ Goto(t, "seed")
    /\ UNCHANGED <<args, ret, scheduler, rng, cuda_cache, outputs, warnings>>

\* lines 338-366
run_image_inference(t) ==
    /\ pc[t] = "idle"
    /\ args[t].fn = "image"
    /\ Enter(t, "Text2Image")

\* lines 369-402
run_video_inference(t) ==
    /\ pc[t] = "idle"
    /\ args[t].fn = "video"
    /\ IF Infeasible(args[t].resolution, args[t].length)
       THEN /\ warnings' = warnings \cup {t}
            /\ ret' = [ret EXCEPT ![t] = Returned(None)]
            /\ Goto(t, "done")
            /\ UNCHANGED <<args, loc, scheduler, rng, cuda_cache, outputs>>
       ELSE Enter(t, "Text2Video")

\* run_inference called with a mode of the caller's choosing
call_run_inference(t) ==
    /\ pc[t] = "idle"
    /\ args[t].fn = "direct"
    /\ Enter(t, args[t].mode)

(***************************************************************************)
(* run_inference                                                           *)
(***************************************************************************)
Log(t, op) == Append(loc[t].trace, Event(op, loc[t].loop_i))

\* variant: the call of torch.manual_seed left out
manual_seed_Missing(t) ==
    /\ pc[t] = "seed"
    /\ Goto(t, "plan")
    /\ UNCHANGED <<args, loc, ret, scheduler, rng, cuda_cache, outputs, warnings>>

\* line 201: torch.manual_seed(seed) re-seeds the process-wide generator
manual_seed(t) ==
    /\ pc[t] = "seed"
    /\ rng' = [seed |-> args[t].seed, offset |-> 0]
    /\ loc' = [loc EXCEPT ![t].seedings = Append(@, Event("manual_seed", loc[t].loop_i))]
    /\ Goto(t, "plan")
    /\ UNCHANGED <<args, ret, scheduler, cuda_cache, outputs, warnings>>

\* lines 208-233: image size, planner, latent size
plan_generation(t) ==
    /\ pc[t] = "plan"
    /\ IF PlanError(loc[t].mode, args[t].length) # "none"
       THEN /\ Raise(t, PlanError(loc[t].mode, args[t].length))
            /\ UNCHANGED loc
       ELSE /\ loc' = [loc EXCEPT ![t].plan = Plan(loc[t].mode, args[t].length)]
            /\ Goto(t, "prepare_ref")
            /\ UNCHANGED ret
    /\ UNCHANGED <<args, scheduler, rng, cuda_cache, outputs, warnings>>

\* A mask strategy string is a ";"-separated list of directives; None is no
\* string at all.  A directive's missing fields take the parser's defaults,
\* so "0" is the directive of loop 0, reference 0, one frame.
Directive(loop_i, ref_index, ref_start, target_start, length, edit_ratio) ==
    [loop |-> loop_i, ref |-> ref_index, ref_start |-> ref_start,
     target_start |-> target_start, length |-> length, edit_ratio |-> edit_ratio]

NoStrategy == [none |-> TRUE, directives |-> <<>>]
Strategy(directives) == [none |-> FALSE, directives |-> directives]

\* variant: the mode is not looked at
InitialMaskStrategy_AnyMode(mode, reference_image) ==
    IF reference_image
    THEN <<Strategy(<<Directive(0, 0, 0, 0, 1, 0)>>)>>
    ELSE <<NoStrategy>>

\* lines 236-244: the mask strategy of the one prompt of the batch
InitialMaskStrategy(mode, reference_image) ==
    IF mode = "Text2Video" /\ reference_image
    THEN <<Strategy(<<Directive(0, 0, 0, 0, 1, 0)>>)>>
    ELSE <<NoStrategy>>

\* lines 247-260: the reference descriptor of the one prompt of the batch
InitialRefs(mode, reference_image) ==
    IF mode = "Text2Video" /\ reference_image THEN <<"temp_file.png">> ELSE <<"">>

\* variant: the final else branch (the raise) missing
ValidMode_Any(mode) == TRUE

\* lines 236-243: the modes that do not reach the raise of line 244
ValidMode(mode) == mode \in {"Text2Image", "Text2Video"}

\* lines 235-260: an unknown mode raises at line 244
prepare_reference(t) ==
    /\ pc[t] = "prepare_ref"
    /\ IF ValidMode(loc[t].mode)
       THEN /\ loc' = [loc EXCEPT
                  ![t].mask_strategy =
                      InitialMaskStrategy(loc[t].mode, args[t].reference_image),
                  ![t].refs = InitialRefs(loc[t].mode, args[t].reference_image)]
            /\ Goto(t, "collect")
            /\ UNCHANGED ret
       ELSE /\ Raise(t, "ValueError")
            /\ UNCHANGED loc
    /\ UNCHANGED <<args, scheduler, rng, cuda_cache, outputs, warnings>>

\* collect_references_batch: a descriptor "" gives no reference, a path gives
\* the encoded image
CollectedRefs(refs) ==
    [j \in DOMAIN refs |->
        IF refs[j] = "" THEN <<>>
        ELSE <<[source |-> "image", loop |-> 0, frames |-> 1]>>]

HasReference(refs) == \E j \in DOMAIN refs : refs[j] # ""

\* variant: one iteration too many
LoopContinues_Inclusive(loop_i, num_loop) == loop_i <= num_loop

\* variant: one iteration too few
LoopContinues_SkipLast(loop_i, num_loop) == loop_i + 1 < num_loop

\* line 286: for loop_i in range(num_loop)
LoopContinues(loop_i, num_loop) == loop_i < num_loop

\* lines 263-284: prompt processing, reference collection (which encodes a
\* supplied image on the device and may fail), scores, multi-resolution info,
\* video_clips = []
collect_references(t) ==
    /\ pc[t] = "collect"
    /\ \E ok \in BOOLEAN :
          IF ok \/ ~HasReference(loc[t].refs)
          THEN /\ loc' = [loc EXCEPT
                     ![t].refs = CollectedRefs(loc[t].refs),
                     ![t].video_clips = <<>>,
                     ![t].loop_i = 0,
                     ![t].trace = Log(t, "collect")]
               /\ Goto(t, IF LoopContinues(0, loc[t].plan.num_loop)
                          THEN "loop" ELSE "stitch")
               /\ cuda_cache' = IF HasReference(loc[t].refs) THEN "held" ELSE cuda_cache
               /\ UNCHANGED ret
          ELSE /\ Raise(t, "EncodeDecodeFailure")
               /\ loc' = [loc EXCEPT ![t].trace = Log(t, "collect")]
               /\ cuda_cache' = "held"
    /\ UNCHANGED <<args, scheduler, rng, outputs, warnings>>

\* append_generated: the tail of the last clip becomes one more reference of
\* every prompt, and the prompt's mask strategy gains the directive that
\* conditions loop loop_i on it
GeneratedRef(clip, condition_frame_length) ==
    [source |-> "generated", loop |-> clip.loop, frames |-> condition_frame_length]

AppendGeneratedRefs(refs, clip, condition_frame_length) ==
    [j \in DOMAIN refs |-> Append(refs[j], GeneratedRef(clip, condition_frame_length))]

AppendGeneratedMask(mask_strategy, refs, loop_i, condition_frame_length) ==
    [j \in DOMAIN mask_strategy |->
        Strategy(Append(mask_strategy[j].directives,
                        Directive(loop_i, Len(refs[j]), -condition_frame_length, 0,
                                  condition_frame_length, 0)))]

\* line 292: if loop_i > 0
NeedsConditioning(loop_i) == loop_i > 0

\* variant: the first clip instead of the last
LastClip_First(video_clips) == video_clips[1]

\* line 293: video_clips[-1]
LastClip(video_clips) == video_clips[Len(video_clips)]

\* torch.randn on the default generator: the values are those of the
\* generator's seed at its current position
Randn(generator) == [seed |-> generator.seed, offset |-> generator.offset]

\* lines 286-297: top of an iteration.  For loop_i > 0 the references and the
\* mask strategy are extended from video_clips[-1] (an encode, which may
\* fail); then the noise z is drawn
loop_prepare(t) ==
    /\ pc[t] = "loop"
    /\ \E ok \in BOOLEAN :
          IF ok \/ ~NeedsConditioning(loc[t].loop_i)
          THEN LET i == loc[t].loop_i
                   last == LastClip(loc[t].video_clips)
                   refs1 == IF NeedsConditioning(i)
                            THEN AppendGeneratedRefs(loc[t].refs, last,
                                     config_condition_frame_length)
                            ELSE loc[t].refs
                   mask1 == IF NeedsConditioning(i)
                            THEN AppendGeneratedMask(loc[t].mask_strategy,
                                     loc[t].refs, i, config_condition_frame_length)
                            ELSE loc[t].mask_strategy
                   tr1 == IF NeedsConditioning(i) THEN Log(t, "append_generated") ELSE loc[t].trace
               IN  /\ loc' = [loc EXCEPT
                         ![t].refs = refs1,
                         ![t].mask_strategy = mask1,
                         ![t].z = Randn(rng),
                         ![t].trace = Append(tr1, Event("randn", i))]
                   /\ rng' = [rng EXCEPT !.offset = @ + 1]
                   /\ cuda_cache' = "held"
                   /\ Goto(t, "sched_init")
                   /\ UNCHANGED ret
          ELSE /\ Raise(t, "EncodeDecodeFailure")
               /\ loc' = [loc EXCEPT ![t].trace = Log(t, "append_generated")]
               /\ cuda_cache' = "held"
               /\ UNCHANGED rng
    /\ UNCHANGED <<args, scheduler, outputs, warnings>>

\* lines 301-305: config.scheduler without 'type', with the request's values
SchedulerKwargs(request) ==
    [k \in DOMAIN config_scheduler \ {"type"} |->
        CASE k = "num_sampling_steps" -> request.sampling_steps
          [] k = "cfg_scale" -> request.cfg_scale
          [] k = "use_timestep_transform" -> request.use_timestep_transform
          [] OTHER -> config_scheduler[k]]

\* lines 301-309: scheduler.__init__(**scheduler_kwargs) on the shared object
scheduler_init(t) ==
    /\ pc[t] = "sched_init"
    /\ scheduler' = SchedulerKwargs(args[t])
    /\ loc' = [loc EXCEPT ![t].trace = Log(t, "init")]
    /\ Goto(t, "sample")
    /\ UNCHANGED <<args, ret, rng, cuda_cache, outputs, warnings>>

\* lines 310-319: scheduler.sample runs with the shared object's attributes
scheduler_sample(t) ==
    /\ pc[t] = "sample"
    /\ loc' = [loc EXCEPT
          ![t].samples = Append(@, [loop |-> loc[t].loop_i, z |-> loc[t].z,
                                    scheduler |-> scheduler,
                                    mask_strategy |-> loc[t].mask_strategy,
                                    refs |-> loc[t].refs]),
          ![t].trace = Log(t, "sample")]
    /\ cuda_cache' = "held"
    /\ \E ok \in BOOLEAN :
          IF ok THEN Goto(t, "decode") /\ UNCHANGED ret
          ELSE Raise(t, "SchedulerFailure")
    /\ UNCHANGED <<args, scheduler, rng, outputs, warnings>>

\* a decoded clip: frames first..last of the segment generated in loop `loop`
Clip(loop, num_frames) == [loop |-> loop, first |-> 1, last |-> num_frames]
ClipLen(c) == IF c.last >= c.first THEN c.last - c.first + 1 ELSE 0

\* lines 320-321 and the loop's next index
decode(t) ==
    /\ pc[t] = "decode"
    /\ cuda_cache' = "held"
    /\ \E ok \in BOOLEAN :
          IF ok
          THEN /\ loc' = [loc EXCEPT
                     ![t].video_clips =
                         Append(@, Clip(loc[t].loop_i, loc[t].plan.num_frames)),
                     ![t].loop_i = @ + 1,
                     ![t].trace = Log(t, "decode")]
               /\ Goto(t, IF LoopContinues(loc[t].loop_i + 1, loc[t].plan.num_loop)
                          THEN "loop" ELSE "stitch")
               /\ UNCHANGED ret
          ELSE /\ loc' = [loc EXCEPT ![t].trace = Log(t, "decode")]
               /\ Raise(t, "EncodeDecodeFailure")
    /\ UNCHANGED <<args, scheduler, rng, outputs, warnings>>

\* line 328: clip[:, k:]
DropLeading(c, k) == [c EXCEPT !.first = @ + k]

\* variant: the trim taken in compressed frames, without dframe_to_frame
Stitch_Unconverted(video_clips, num_loop) ==
    [i \in DOMAIN video_clips |->
        IF i - 1 \in 1..(num_loop - 1)
        THEN DropLeading(video_clips[i], config_condition_frame_length)
        ELSE video_clips[i]]

\* variant: no clip is trimmed
Stitch_KeepAll(video_clips, num_loop) == video_clips

\* variant: the first clip is trimmed like the others
Stitch_TrimFirstToo(video_clips, num_loop) ==
    [i \in DOMAIN video_clips |->
        DropLeading(video_clips[i], dframe_to_frame(config_condition_frame_length))]

\* lines 326-329: every clip after the first loses its leading
\* dframe_to_frame(condition_frame_length) frames; torch.cat in list order
Stitch(video_clips, num_loop) ==
    [i \in DOMAIN video_clips |->
        IF i - 1 \in 1..(num_loop - 1)
        THEN DropLeading(video_clips[i], dframe_to_frame(config_condition_frame_length))
        ELSE video_clips[i]]

RECURSIVE VideoLen(_)
VideoLen(video) ==
    IF Len(video) = 0 THEN 0 ELSE ClipLen(Head(video)) + VideoLen(Tail(video))

\* lines 326-329 (torch.cat of an empty list raises)
stitch(t) ==
    /\ pc[t] = "stitch"
    /\ IF Len(loc[t].video_clips) = 0
       THEN /\ Raise(t, "RuntimeError")
            /\ UNCHANGED loc
       ELSE /\ loc' = [loc EXCEPT
                  ![t].video = Stitch(loc[t].video_clips, loc[t].plan.num_loop),
                  ![t].trace = Log(t, "stitch")]
            /\ Goto(t, "save")
            /\ UNCHANGED ret
    /\ UNCHANGED <<args, scheduler, rng, cuda_cache, outputs, warnings>>

SavePath(t) == <<"output", t>>

\* lines 330-333: save_sample writes the file, or fails
save(t) ==
    /\ pc[t] = "save"
    /\ \E ok \in BOOLEAN :
          IF ok
          THEN /\ outputs' = outputs \cup
                     {[path |-> SavePath(t), frames |-> VideoLen(loc[t].video),
                       fps |-> loc[t].plan.fps]}
               /\ loc' = [loc EXCEPT ![t].saved_path = SavePath(t),
                                     ![t].trace = Log(t, "save")]
               /\ Goto(t, "empty_cache")
               /\ UNCHANGED ret
          ELSE /\ loc' = [loc EXCEPT ![t].trace = Log(t, "save")]
               /\ Raise(t, "SaveFailure")
               /\ UNCHANGED outputs
    /\ UNCHANGED <<args, scheduler, rng, cuda_cache, warnings>>

\* line 334: torch.cuda.empty_cache()
empty_cache(t) ==
    /\ pc[t] = "empty_cache"
    /\ cuda_cache' = "empty"
    /\ loc' = [loc EXCEPT ![t].trace = Log(t, "empty_cache")]
    /\ Goto(t, "return")
    /\ UNCHANGED <<args, ret, scheduler, rng, outputs, warnings>>

\* line 335, and the handler's own return of that value
return_saved_path(t) ==
    /\ pc[t] = "return"
    /\ ret' = [ret EXCEPT ![t] = Returned(loc[t].saved_path)]
    /\ Goto(t, "done")
    /\ UNCHANGED <<args, loc, scheduler, rng, cuda_cache, outputs, warnings>>

Next ==
    \E t \in Threads :
        \/ run_image_inference(t)
        \/ run_video_inference(t)
        \/ call_run_inference(t)
        \/ manual_seed(t)
        \/ plan_generation(t)
        \/ prepare_reference(t)
        \/ collect_references(t)
        \/ loop_prepare(t)
        \/ scheduler_init(t)
        \/ scheduler_sample(t)
        \/ decode(t)
        \/ stitch(t)
        \/ save(t)
        \/ empty_cache(t)
        \/ return_saved_path(t)

Spec == Init /\ [][Next]_vars

SpecConc == InitConc /\ [][Next]_vars

SpecConcLong == InitConcLong /\ [][Next]_vars

(***************************************************************************)
(* Properties                                                              *)
(***************************************************************************)
Called(t) == pc[t] # "idle"
Done(t) == pc[t] = "done"
\* run_inference was entered by thread t's call
Entered(t) == loc[t].mode # ""
\* the planner ran to its end
Planned(t) == pc[t] \notin {"idle", "seed", "plan"} /\ loc[t].plan # UnsetPlan
\* the generation loop was reached
InLoop(t) == Planned(t) /\ \E k \in DOMAIN loc[t].trace : loc[t].trace[k].op = "randn"
Stitched(t) == Len(loc[t].video) > 0
Ops(t) == {loc[t].trace[k].op : k \in DOMAIN loc[t].trace}
Saved(t) == \E o \in outputs : o.path = SavePath(t)
Seconds(t) == int(rstrip(args[t].length, "s"))
condition_real_frame_length == dframe_to_frame(config_condition_frame_length)

\* C1: a run_video_inference call with (720p, 8s), (720p, 16s) or (480p, 16s)
\* is refused up front: run_inference is not entered, the scheduler is not
\* sampled, nothing is saved or returned and a warning is raised; with any
\* other (resolution, length) run_inference is entered with mode Text2Video.
C1_RefusedUpFront ==
    \A t \in Threads :
        (args[t].fn = "video" /\ Called(t)) =>
            IF <<args[t].resolution, args[t].length>> \in
                  {<<"720p", Tag8s>>, <<"720p", Tag16s>>, <<"480p", Tag16s>>}
            THEN /\ ~Entered(t)
                 /\ Done(t)
                 /\ loc[t] = InitLocals
                 /\ ~Saved(t)
                 /\ ret[t] = Returned(None)
                 /\ t \in warnings
            ELSE /\ loc[t].mode = "Text2Video"
                 /\ t \notin warnings

C1_Witness ==
    \E t \in Threads :
        /\ args[t].fn = "video" /\ Done(t)
        /\ args[t].resolution = "720p" /\ args[t].length = Tag8s
        /\ t \in warnings

\* C2: the planner yields exactly one loop for Text2Image (whatever the
\* resolution, aspect ratio and length; then num_frames = 1 too) and for
\* Text2Video with a length of at most 16 seconds (then num_frames is the
\* value the length tag looks up).
C2_OneLoop ==
    \A t \in Threads :
        Planned(t) =>
            /\ loc[t].mode = "Text2Image" =>
                  loc[t].plan.num_loop = 1 /\ loc[t].plan.num_frames = 1
            /\ (loc[t].mode = "Text2Video" /\ Seconds(t) <= 16) =>
                  /\ loc[t].plan.num_loop = 1
                  /\ loc[t].plan.num_frames = NUM_FRAMES_MAP[args[t].length]

C2_Witness ==
    \E t \in Threads :
        /\ Planned(t) /\ loc[t].mode = "Text2Video"
        /\ args[t].length = Tag16s /\ loc[t].plan.num_loop = 1
        /\ loc[t].plan.num_frames = 408

\* C3: for Text2Video with more than 16 seconds,
\* num_loop = 1 + floor((fps * seconds - num_frames) /
\*                      (num_frames - condition_real_frame_length))
\* with the configured fps and num_frames; 32 seconds give 22 loops.
C3_LoopFormula ==
    \A t \in Threads :
        (Planned(t) /\ loc[t].mode = "Text2Video" /\ Seconds(t) > 16) =>
            /\ loc[t].plan.num_loop =
                  1 + ((config_fps * Seconds(t) - config_num_frames)
                         \div (config_num_frames - condition_real_frame_length))
            /\ Seconds(t) = 32 => loc[t].plan.num_loop = 22

C3_Witness ==
    \E t \in Threads :
        /\ Planned(t) /\ loc[t].mode = "Text2Video"
        /\ args[t].length = Tag32s /\ loc[t].plan.num_loop = 22

C5_StitchedLength ==
    \A t \in Threads :
        Stitched(t) =>
            VideoLen(loc[t].video) =
                ClipLen(loc[t].video_clips[1])
                + (loc[t].plan.num_loop - 1)
                    * (loc[t].plan.num_frames - condition_real_frame_length)

C5_Witness ==
    \E t \in Threads :
        /\ Done(t) /\ ret[t].kind = "returned" /\ Stitched(t)
        /\ loc[t].plan.num_loop = 22
        /\ VideoLen(loc[t].video) = 765

C7_InvalidModeFatal ==
    \A t \in Threads :
        (Entered(t) /\ loc[t].mode \notin {"Text2Image", "Text2Video"}) =>
            /\ pc[t] \in {"seed", "plan", "prepare_ref", "done"}
            /\ loc[t].trace = <<>>
            /\ loc[t].samples = <<>>
            /\ loc[t].video_clips = <<>>
            /\ ~Saved(t)
            /\ ret[t].kind # "returned"
            /\ Done(t) => ret[t].kind = "raised"

C7_Witness ==
    \E t \in Threads :
        /\ Entered(t) /\ loc[t].mode = "Image2Video"
        /\ Done(t) /\ ret[t] = Raised("ValueError")

\* C8 (as claimed): with requests running at the same time, every sample call
\* of a request runs with that request's own sampling-step count, cfg scale
\* and timestep-transform flag, under every interleaving.
C8_SampleUsesOwnConfig ==
    \A t \in Threads :
        \A k \in DOMAIN loc[t].samples :
            /\ loc[t].samples[k].scheduler.num_sampling_steps = args[t].sampling_steps
            /\ loc[t].samples[k].scheduler.cfg_scale = args[t].cfg_scale
            /\ loc[t].samples[k].scheduler.use_timestep_transform =
                  args[t].use_timestep_transform

\* C9 (as claimed): on every exit of run_inference, after a successful save
\* and after a failure of reference collection, sampling, decoding or saving,
\* the cache clear has happened before the result or error reaches the caller.
C9_CacheClearedOnExit ==
    \A t \in Threads :
        (Done(t) /\ Entered(t)
            /\ (ret[t].kind = "returned"
                \/ ret[t].exc \in {"EncodeDecodeFailure", "SchedulerFailure",
                                   "SaveFailure"})) =>
            "empty_cache" \in Ops(t)

\* C10 (as claimed): two runs of run_inference with the same seed and the
\* same request have, for every loop index, the same noise z when the
\* scheduler is invoked.
C10_SameSeedSameNoise ==
    \A t, u \in Threads :
        args[t] = args[u] =>
            \A k \in DOMAIN loc[t].samples \cap DOMAIN loc[u].samples :
                loc[t].samples[k].z = loc[u].samples[k].z

\* the directives of a sample call's mask strategy that address its own loop
OwnDirectives(smp) ==
    {k \in DOMAIN smp.mask_strategy[1].directives :
        smp.mask_strategy[1].directives[k].loop = smp.loop}
\* the frames of a segment that a directive conditions at full strength
ConditionedFrames(d) ==
    IF d.edit_ratio = 0
    THEN (dframe_to_frame(d.target_start) + 1)..dframe_to_frame(d.target_start + d.length)
    ELSE {}
MultiLoop(t) == loc[t].plan.num_loop > 1

\* C11: in a multi-loop request, for every loop i > 0 the frames the stitch
\* removes from the head of segment i are exactly the frames that loop i's
\* directive conditions at full strength on the tail of segment i-1: no
\* conditioned frame is kept (no duplicated block) and every other frame of
\* the segment is kept (no new frame lost).
C11_TrimIsConditioning ==
    \A t \in Threads :
        (Stitched(t) /\ MultiLoop(t)) =>
            \A i \in 2..Len(loc[t].video) :
                LET smp == loc[t].samples[i]
                    own == OwnDirectives(smp)
                    seg == loc[t].video_clips[i]
                    kept == loc[t].video[i].first..loc[t].video[i].last
                    removed == (seg.first..seg.last) \ kept
                IN  /\ smp.loop = i - 1 /\ seg.loop = i - 1
                    /\ Cardinality(own) = 1
                    /\ \A k \in own :
                          LET d == smp.mask_strategy[1].directives[k]
                              ref == smp.refs[1][d.ref + 1]
                          IN  /\ ref = [source |-> "generated", loop |-> i - 2,
                                        frames |-> d.length]
                              /\ d.ref_start = -d.length
                              /\ removed = ConditionedFrames(d)
                              /\ kept \cap ConditionedFrames(d) = {}
                              /\ (seg.first..seg.last) \ ConditionedFrames(d) \subseteq kept

C11_Witness ==
    \E t \in Threads :
        /\ Stitched(t) /\ MultiLoop(t) /\ Len(loc[t].video) = 11
        /\ loc[t].video[11] = [loc[t].video_clips[11] EXCEPT !.first = 18]

\* C12 (as claimed): under every interleaving of concurrent requests, the
\* inputs a request hands to the scheduler are those it has when it runs
\* alone: the noise of loop i is the i-th draw after seeding with the
\* request's own seed, and the loop-0 mask strategy and references are those
\* of the request's own mode and reference image.
C12_InputsAsWhenAlone ==
    \A t \in Threads :
        \A k \in DOMAIN loc[t].samples :
            LET smp == loc[t].samples[k]
            IN  /\ smp.z = [seed |-> args[t].seed, offset |-> smp.loop]
                /\ smp.loop = 0 =>
                      /\ smp.mask_strategy =
                            InitialMaskStrategy(loc[t].mode, args[t].reference_image)
                      /\ smp.refs =
                            CollectedRefs(InitialRefs(loc[t].mode, args[t].reference_image))

\* the step that may directly follow step a in a request of num_loop loops
Follows(a, b, num_loop) ==
    CASE a.op = "collect" -> b = Event("randn", 0)
      [] a.op = "append_generated" -> b = Event("randn", a.loop)
      [] a.op = "randn" -> b = Event("init", a.loop)
      [] a.op = "init" -> b = Event("sample", a.loop)
      [] a.op = "sample" -> b = Event("decode", a.loop)
      [] a.op = "decode" ->
            IF a.loop + 1 < num_loop
            THEN b = Event("append_generated", a.loop + 1)
            ELSE b.op = "stitch"
      [] a.op = "stitch" -> b.op = "save"
      [] a.op = "save" -> b.op = "empty_cache"
      [] OTHER -> FALSE

\* C13: within one request the steps run in the order prepare(i), sample(i),
\* decode(i) for i = 0, 1, ..., num_loop-1, then stitch, then the end: the
\* preparation of loop i+1 starts only with i+1 segments in the list, the
\* last of them decoded by loop i, and the stitch starts only with num_loop
\* segments, one per loop in loop order.
C13_StrictLoopOrder ==
    \A t \in Threads :
        LET tr == loc[t].trace
            clips == loc[t].video_clips
        IN  /\ Len(tr) > 0 => tr[1] = Event("collect", 0)
            /\ \A k \in 1..(Len(tr) - 1) : Follows(tr[k], tr[k + 1], loc[t].plan.num_loop)
            /\ \A k \in DOMAIN clips : clips[k].loop = k - 1
            /\ pc[t] \in {"loop", "sched_init", "sample", "decode"} =>
                  /\ loc[t].loop_i < loc[t].plan.num_loop
                  /\ Len(clips) = loc[t].loop_i
                  /\ loc[t].loop_i > 0 =>
                        tr[Len(tr) - (CASE pc[t] = "loop" -> 0
                                        [] pc[t] = "sched_init" -> 1
                                        [] pc[t] = "sample" -> 2
                                        [] pc[t] = "decode" -> 3)].op
                            = IF pc[t] = "loop" THEN "decode" ELSE "append_generated"
            /\ (pc[t] \in {"stitch", "save", "empty_cache", "return"} \/ Stitched(t)) =>
                  /\ Len(clips) = loc[t].plan.num_loop
                  /\ Event("decode", loc[t].plan.num_loop - 1) \in
                        {tr[k] : k \in DOMAIN tr}
            /\ (Done(t) /\ Entered(t) /\ ret[t].kind = "returned") =>
                  tr[Len(tr)].op = "empty_cache"

C13_Witness ==
    \E t \in Threads :
        /\ Done(t) /\ ret[t].kind = "returned" /\ loc[t].plan.num_loop = 11
        /\ Len(loc[t].trace) = 58
        /\ loc[t].trace[51] = Event("append_generated", 10)

\* the references of a sample call that were cut from generated segments
GeneratedRefs(smp) ==
    SelectSeq(smp.refs[1], LAMBDA r : r.source = "generated")

\* C14: for every loop i > 0, when the scheduler is invoked the references
\* and the mask strategy have been extended once per earlier loop, last from
\* the segment of loop i-1, with condition_frame_length frames each, and the
\* one directive of loop i points at that last reference; the update ran
\* exactly once in loop i, before the sample call; for loop 0 it never runs
\* and no generated reference exists.
C14_ConditionedOnPrevious ==
    \A t \in Threads :
        \A k \in DOMAIN loc[t].samples :
            LET smp == loc[t].samples[k]
                i == smp.loop
                gen == GeneratedRefs(smp)
                tr == loc[t].trace
                updates == {j \in DOMAIN tr : tr[j] = Event("append_generated", i)}
                calls == {j \in DOMAIN tr : tr[j] = Event("sample", i)}
            IN  IF i = 0
                THEN /\ Len(gen) = 0
                     /\ updates = {}
                     /\ smp.mask_strategy =
                           InitialMaskStrategy(loc[t].mode, args[t].reference_image)
                ELSE /\ Len(gen) = i
                     /\ \A j \in 1..i :
                           gen[j] = [source |-> "generated", loop |-> j - 1,
                                     frames |-> config_condition_frame_length]
                     /\ Cardinality(OwnDirectives(smp)) = 1
                     /\ \A j \in OwnDirectives(smp) :
                           LET d == smp.mask_strategy[1].directives[j]
                           IN  /\ d.length = config_condition_frame_length
                               /\ d.ref + 1 = Len(smp.refs[1])
                               /\ smp.refs[1][d.ref + 1] = gen[i]
                     /\ Cardinality(updates) = 1
                     /\ \A u \in updates : \A c \in calls : u < c

C14_Witness ==
    \E t \in Threads :
        /\ args[t].reference_image /\ loc[t].mode = "Text2Video"
        /\ Len(loc[t].samples) = 11
        /\ Len(loc[t].samples[11].refs[1]) = 11
        /\ loc[t].samples[11].refs[1][11] =
              [source |-> "generated", loop |-> 9,
               frames |-> config_condition_frame_length]

\* C15: the stitched video is the decoded segments in loop order, the first
\* one whole and every later one without exactly its leading
\* condition_real_frame_length frames.
C15_FirstWholeOthersTrimmed ==
    \A t \in Threads :
        Stitched(t) =>
            LET clips == loc[t].video_clips
                video == loc[t].video
            IN  /\ Len(video) = Len(clips)
                /\ video[1] = clips[1]
                /\ video[1] = Clip(0, loc[t].plan.num_frames)
                /\ \A i \in 2..Len(video) :
                      /\ video[i].loop = i - 1
                      /\ video[i].first = clips[i].first + condition_real_frame_length
                      /\ video[i].last = clips[i].last
                      /\ ClipLen(video[i]) =
                            ClipLen(clips[i]) - condition_real_frame_length

C15_Witness ==
    \E t \in Threads :
        /\ Stitched(t) /\ Len(loc[t].video) = 22
        /\ loc[t].video[1] = [loop |-> 0, first |-> 1, last |-> 51]
        /\ loc[t].video[22] = [loop |-> 21, first |-> 18, last |-> 51]

\* the number of times step op of loop i was taken
Times(t, op, i) ==
    Cardinality({k \in DOMAIN loc[t].trace : loc[t].trace[k] = Event(op, i)})
GenerationFailures == {"SchedulerFailure", "EncodeDecodeFailure"}

\* C16: no retries and no partial output.  The scheduler is invoked at most
\* once per loop; when sampling or decoding fails the request ends at once
\* with that failure: the failing call is the last step taken, nothing is
\* stitched, saved or returned; and a saved output always holds a segment of
\* every loop.
C16_NoRetryNoPartial ==
    \A t \in Threads :
        LET tr == loc[t].trace
        IN  /\ \A i \in 0..loc[t].plan.num_loop :
                  /\ Times(t, "sample", i) <= 1
                  /\ Times(t, "decode", i) <= 1
            /\ (ret[t].kind = "raised" /\ ret[t].exc \in GenerationFailures) =>
                  /\ Done(t)
                  /\ ret[t].value = None
                  /\ ~Stitched(t) /\ ~Saved(t) /\ loc[t].saved_path = None
                  /\ tr[Len(tr)].op \in {"collect", "append_generated", "sample", "decode"}
                  /\ ret[t].exc = "SchedulerFailure" <=> tr[Len(tr)].op = "sample"
                  /\ \A k \in DOMAIN tr : tr[k].loop <= tr[Len(tr)].loop
            /\ (Saved(t) \/ (Entered(t) /\ ret[t].kind = "returned")) =>
                  /\ Len(loc[t].video) = loc[t].plan.num_loop
                  /\ \A i \in 0..(loc[t].plan.num_loop - 1) :
                        Times(t, "sample", i) = 1 /\ Times(t, "decode", i) = 1

C16_Witness ==
    \E t \in Threads :
        /\ Done(t) /\ ret[t] = Raised("SchedulerFailure")
        /\ Len(loc[t].video_clips) = 3
        /\ loc[t].trace[Len(loc[t].trace)] = Event("sample", 3)
        /\ ~Saved(t)

\* C17 (as claimed): within one request the generator is seeded from the
\* request seed and then only advances: the noise of every loop comes from
\* the request's own seed, and the noise of a later loop from a strictly
\* later generator state than that of an earlier loop, so no two loops of a
\* request draw from the same state.
C17_GeneratorOnlyAdvances ==
    \A t \in Threads :
        \A k \in DOMAIN loc[t].samples :
            /\ loc[t].samples[k].z.seed = args[t].seed
            /\ \A j \in 1..(k - 1) :
                  /\ loc[t].samples[j].z.seed = loc[t].samples[k].z.seed
                  /\ loc[t].samples[j].z.offset < loc[t].samples[k].z.offset

\* the seeding events of request t that happened in loop i
SeedingsIn(t, i) ==
    {k \in DOMAIN loc[t].seedings : loc[t].seedings[k] = Event("manual_seed", i)}

\* C18 (as claimed): the generator is re-seeded with the request seed at the
\* top of every loop iteration: a seeding event of loop i precedes the noise
\* draw of every loop i in 0..num_loop-1.
C18_ReseededEveryLoop ==
    \A t \in Threads :
        \A k \in DOMAIN loc[t].samples :
            SeedingsIn(t, loc[t].samples[k].loop) # {}

\* C18 (amended): run_inference seeds the generator with the request seed
\* exactly once, on entry, before the plan, the reference collection and
\* loop 0; no loop iteration seeds it again.
C18_SeededOnceOnEntry ==
    \A t \in Threads :
        /\ pc[t] \in {"idle", "seed"} => loc[t].seedings = <<>>
        /\ pc[t] = "seed" => loc[t].trace = <<>> /\ loc[t].plan = UnsetPlan
        /\ (Entered(t) /\ pc[t] # "seed") =>
              /\ loc[t].seedings = <<Event("manual_seed", 0)>>
              /\ \A i \in 1..loc[t].plan.num_loop : SeedingsIn(t, i) = {}

C18_Witness ==
    \E t \in Threads :
        /\ Len(loc[t].samples) = 11 /\ loc[t].samples[11].loop = 10
        /\ loc[t].seedings = <<Event("manual_seed", 0)>>
        /\ loc[t].samples[11].z = [seed |-> args[t].seed, offset |-> 10]

\* C19 (as claimed): the request's step count, cfg scale and
\* timestep-transform flag override the scheduler's configuration for that
\* call only: every sample call runs right after a re-initialisation, in the
\* same loop, with the static configuration plus the request's three
\* values, and once the call is over the shared scheduler carries the static
\* configuration again.
C19_OverridesForCallOnly ==
    \A t \in Threads :
        /\ \A k \in DOMAIN loc[t].trace :
              loc[t].trace[k].op = "sample" =>
                  loc[t].trace[k - 1] = Event("init", loc[t].trace[k].loop)
        /\ \A k \in DOMAIN loc[t].samples :
              loc[t].samples[k].scheduler = SchedulerKwargs(args[t])
        /\ (Done(t) /\ Entered(t)) =>
              scheduler = [k \in DOMAIN config_scheduler \ {"type"} |-> config_scheduler[k]]

\* C20: for loop 0 the mask strategy is non-null (the one directive '0':
\* reference 0, one frame, at the start) with a non-empty reference
\* descriptor if and only if the mode is Text2Video and a reference image
\* was supplied; otherwise, a Text2Image request with a reference image
\* included, the strategy is null, the descriptor is empty and the scheduler
\* of loop 0 gets no reference.
C20_Loop0Strategy ==
    \A t \in Threads :
        LET conditioned == loc[t].mode = "Text2Video" /\ args[t].reference_image
        IN  /\ pc[t] = "collect" =>
                  /\ Len(loc[t].mask_strategy) = 1 /\ Len(loc[t].refs) = 1
                  /\ ~loc[t].mask_strategy[1].none <=> conditioned
                  /\ loc[t].refs[1] # "" <=> conditioned
                  /\ conditioned =>
                        loc[t].mask_strategy[1].directives = <<Directive(0, 0, 0, 0, 1, 0)>>
            /\ \A k \in DOMAIN loc[t].samples :
                  loc[t].samples[k].loop = 0 =>
                      LET smp == loc[t].samples[k]
                      IN  /\ ~smp.mask_strategy[1].none <=> conditioned
                          /\ smp.refs[1] # <<>> <=> conditioned
                          /\ ~conditioned => smp.mask_strategy = <<NoStrategy>>
                          /\ conditioned =>
                                /\ smp.refs[1] = <<[source |-> "image", loop |-> 0, frames |-> 1]>>
                                /\ OwnDirectives(smp) = {1}

C20_Witness ==
    \E t \in Threads :
        /\ loc[t].mode = "Text2Image" /\ args[t].reference_image
        /\ Len(loc[t].samples) = 1
        /\ loc[t].samples[1].mask_strategy = <<NoStrategy>>
        /\ loc[t].samples[1].refs = <<<<>>>>

\* the number of times step op was taken, in whatever loop
TotalTimes(t, op) ==
    Cardinality({k \in DOMAIN loc[t].trace : loc[t].trace[k].op = op})
Succeeded(t) == Done(t) /\ Entered(t) /\ ret[t].kind = "returned"

\* C21: at the start of loop i the segment list holds exactly i segments;
\* on a successful request the scheduler re-initialisation, the sample call
\* and the decode are each performed exactly num_loop times, once per loop,
\* the stitch receives exactly num_loop segments, and exactly one output is
\* saved and returned.
C21_Counts ==
    \A t \in Threads :
        /\ pc[t] = "loop" => Len(loc[t].video_clips) = loc[t].loop_i
        /\ \A k \in DOMAIN loc[t].trace :
              loc[t].trace[k].op = "randn" =>
                  Cardinality({j \in 1..k : loc[t].trace[j].op = "decode"})
                      = loc[t].trace[k].loop
        /\ Stitched(t) => Len(loc[t].video_clips) = loc[t].plan.num_loop
        /\ Succeeded(t) =>
              /\ loc[t].plan.num_loop >= 1
              /\ TotalTimes(t, "init") = loc[t].plan.num_loop
              /\ TotalTimes(t, "sample") = loc[t].plan.num_loop
              /\ TotalTimes(t, "decode") = loc[t].plan.num_loop
              /\ \A i \in 0..(loc[t].plan.num_loop - 1) :
                    /\ Times(t, "init", i) = 1
                    /\ Times(t, "sample", i) = 1
                    /\ Times(t, "decode", i) = 1
              /\ Len(loc[t].samples) = loc[t].plan.num_loop
              /\ Len(loc[t].video_clips) = loc[t].plan.num_loop
              /\ Len(loc[t].video) = loc[t].plan.num_loop
              /\ TotalTimes(t, "stitch") = 1
              /\ TotalTimes(t, "save") = 1
              /\ Cardinality({o \in outputs : o.path = SavePath(t)}) = 1
              /\ ret[t].value = SavePath(t)
              /\ loc[t].saved_path = SavePath(t)

C21_Witness ==
    \E t \in Threads :
        /\ Succeeded(t) /\ loc[t].plan.num_loop = 22
        /\ TotalTimes(t, "sample") = 22
        /\ Len(loc[t].video_clips) = 22
        /\ Cardinality(outputs) = 1

=============================================================================
